---- MODULE Spec2Model ----
(***************************************************************************)
(* Model of the interview analysis pipeline: main (main.py), the           *)
(* orchestrator run_pipeline (src/pipeline/runner.py), the speaker role    *)
(* mapper, the question/answer pairer and the report writer.  External     *)
(* collaborators (audio                                                    *)
(* conversion, diarization, segmentation, transcription, question          *)
(* classification, sentiment scoring, the file system) are modelled by the *)
(* values they can return and by the exceptions they can raise.            *)
(*                                                                         *)
(* An optional value (Python's X | None) is a sequence of length at most   *)
(* one: << >> is None, <<v>> is the value v.  Times are in thousandths of  *)
(* a second (the diarizer rounds to three decimals), scores in thousandths,*)
(* percentages in tenths, the reported duration in hundredths of a second. *)
(***************************************************************************)
EXTENDS Integers, Sequences, FiniteSets, TLC

\* ------------------------------------------------------------------ bounds

\* Longest diarization output, and longest pairer input, explored.
MaxSegs == 3

\* Longest segment list map_speakers is applied to on its own.
MaxMapLen == 5

\* ------------------------------------------------------------ value domains

\* Speaker codes the diarizer hands out.
Speakers == {"SPEAKER_00", "SPEAKER_01"}

\* Transcribed texts: empty, whitespace only, and a non-empty utterance.
Texts == {<< >>, <<" ">>, <<"a">>}

\* Languages the transcriber may report; "fr" stands for any unsupported one.
DetectedLangs == {"es", "en", "fr"}

SupportedLangs == {"es", "en", "it", "pt"}

Roles == {"question", "statement"}

SpeakerRoles == {"Interviewer", "Interviewee"}

Whitespace == {" "}

\* str.strip(): drop leading and trailing whitespace characters.
RECURSIVE LStrip(_)
LStrip(t) ==
    IF t = << >> THEN t
    ELSE IF Head(t) \in Whitespace THEN LStrip(Tail(t)) ELSE t

RECURSIVE RStrip(_)
RStrip(t) ==
    IF t = << >> THEN t
    ELSE IF t[Len(t)] \in Whitespace THEN RStrip(SubSeq(t, 1, Len(t) - 1)) ELSE t

\* Mutant of Strip: the text is used as it is.
Strip_Identity(t) == t

Strip(t) == RStrip(LStrip(t))

\* Truth value of a Python string: non-empty.
StrTruthy(t) == t /= << >>

\* Truth value of an int | None: None and 0 are both falsy.
OptIntTruthy(o) == o /= << >> /\ o[1] /= 0

\* Mutant of PlaceholderSentiment: the neutral score is one half.
PlaceholderSentiment_Half == [label |-> "NEU", score |-> 500]

\* runner.py 108-115: label NEU, score 0.95 (scores are in thousandths)
PlaceholderSentiment == [label |-> "NEU", score |-> 950]

\* runner.py 116-123: label others, score 0.95
PlaceholderEmotion == [label |-> "others", score |-> 950]

\* What analyze_text may return (label and score in thousandths).
AnalyzerOutputs ==
    { <<[label |-> "POS", score |-> 900], [label |-> "joy", score |-> 900]>>,
      <<[label |-> "NEG", score |-> 700], [label |-> "sadness", score |-> 700]>> }

PIPELINE_PHASES ==
    << "Audio Conversion", "Speaker Diarization", "Audio Segmentation",
       "Transcription", "Question Classification", "Sentiment Analysis",
       "Speaker Mapping", "Q&A Pairing", "Report Generation" >>

PhaseNames == { PIPELINE_PHASES[k] : k \in 1..Len(PIPELINE_PHASES) }

VARIABLES
    pc,                 \* position of run_pipeline / of the pairer's caller
    trace,              \* every collaborator call made so far, in order
    result,             \* << >> while running, else <<"None">>, <<"analysis">>, <<"exception">>
    artifact,           \* the file at output_path: "absent", "partial", "complete"
    saved,              \* the analyses handed to save_analysis, in order
    progress,           \* PipelineProgress: phase name -> "hidden" | "started" | "completed"
    segments,           \* diarize_audio's result
    clip_paths,         \* split_audio_segments' result
    transcribed,        \* transcribe_segments' first result
    detected_lang,      \* transcribe_segments' second result
    lang,               \* the resolved working language
    speaker_map,        \* map_speakers' result, a function speaker -> role
    idx,                \* loop index of the annotation loop (0-based, as enumerate)
    role,               \* the role decided for transcribed[idx]
    analyzed_segments,  \* the list of AnalyzedSegment
    analysis,           \* generate_report's result
    ppc,                \* position inside pair_questions_answers
    i,                  \* pair_questions_answers' outer index (0-based)
    j,                  \* pair_questions_answers' inner index (0-based)
    question_id,
    first_answer_id,
    pair_input,         \* the list pair_questions_answers was called with
    scored,             \* every analyze_text call: its arguments and its result
    mpc,                \* position of main: the call it is at, "none" without main
    main_result         \* << >> while running, else <<"True">>, <<"False">>, <<"exception">>

runVars == << pc, trace, result, artifact, saved, progress, segments, clip_paths,
              transcribed, detected_lang, lang, speaker_map, idx, role, analysis,
              scored, mpc, main_result >>

pairVars == << ppc, i, j, question_id, first_answer_id, pair_input >>

vars == << runVars, analyzed_segments, pairVars >>

\* ------------------------------------------------------------ map_speakers

\* Number of segments of speaker sp (Counter's count).
RECURSIVE CountSpeaker(_, _)
CountSpeaker(sp, segs) ==
    IF segs = << >> THEN 0
    ELSE (IF Head(segs).speaker = sp THEN 1 ELSE 0) + CountSpeaker(sp, Tail(segs))

\* The distinct speakers in order of first occurrence (Counter's key order).
RECURSIVE SpeakerOrder(_)
SpeakerOrder(segs) ==
    IF segs = << >> THEN << >>
    ELSE LET before == SpeakerOrder(SubSeq(segs, 1, Len(segs) - 1))
             sp == segs[Len(segs)].speaker
         IN IF \E k \in 1..Len(before) : before[k] = sp
            THEN before ELSE Append(before, sp)

\* Counter(...).items(): <<speaker, count>> in key order.
SpeakerCounts(segs) ==
    LET order == SpeakerOrder(segs)
    IN [k \in 1..Len(order) |-> <<order[k], CountSpeaker(order[k], segs)>>]

\* Mutant of MostCommon: the sort is not stable, equal counts come out in
\* reverse insertion order.
RECURSIVE MostCommon_TiesReversed(_)
MostCommon_TiesReversed(items) ==
    IF items = << >> THEN << >>
    ELSE LET rest == MostCommon_TiesReversed(SubSeq(items, 1, Len(items) - 1))
             x == items[Len(items)]
             k == Cardinality({p \in 1..Len(rest) : rest[p][2] > x[2]})
         IN SubSeq(rest, 1, k) \o <<x>> \o SubSeq(rest, k + 1, Len(rest))

\* Mutant of MostCommon: most_common(1), only the most frequent item is kept.
MostCommon_TopOne(items) ==
    IF items = << >> THEN << >>
    ELSE LET top == CHOOSE k \in 1..Len(items) :
                        /\ \A p \in 1..Len(items) : items[p][2] <= items[k][2]
                        /\ \A p \in 1..(k - 1) : items[p][2] < items[k][2]
         IN <<items[top]>>

\* Counter.most_common(): sorted(items, key=count, reverse=True), a stable sort.
RECURSIVE MostCommon(_)
MostCommon(items) ==
    IF items = << >> THEN << >>
    ELSE LET rest == MostCommon(SubSeq(items, 1, Len(items) - 1))
             x == items[Len(items)]
             k == Cardinality({p \in 1..Len(rest) : rest[p][2] >= x[2]})
         IN SubSeq(rest, 1, k) \o <<x>> \o SubSeq(rest, k + 1, Len(rest))

\* Mutant of Reversed: the list is not reversed.
Reversed_Identity(s) == s

\* seq[::-1]
Reversed(s) == [k \in 1..Len(s) |-> s[Len(s) + 1 - k]]

\* map_speakers: the first of the reversed most_common list is the Interviewer.
map_speakers(segs) ==
    IF segs = << >> THEN << >>
    ELSE LET sorted_speakers == Reversed(MostCommon(SpeakerCounts(segs)))
             names == { sorted_speakers[k][1] : k \in 1..Len(sorted_speakers) }
         IN [sp \in names |->
                IF sp = sorted_speakers[1][1] THEN "Interviewer" ELSE "Interviewee"]

\* speaker_map.get(speaker, speaker)
get_speaker_role(speaker, m) == IF speaker \in DOMAIN m THEN m[speaker] ELSE speaker

\* ---------------------------------------------------------- generate_report

\* Mutant of CountRole: the role test is negated.
CountRole_Complement(segs, r) ==
    Cardinality({k \in 1..Len(segs) : segs[k].role /= r})

\* report_generator.py 38: questions = [s for s in segments if s.role == "question"]
CountRole(segs, r) == Cardinality({k \in 1..Len(segs) : segs[k].role = r})

\* Mutant of Statements: the role is not looked at.
Statements_AnyRole(segs) == segs

\* report_generator.py 39: statements = [s for s in segments if s.role == "statement"]
Statements(segs) == SelectSeq(segs, LAMBDA s : s.role = "statement")

\* report_generator.py 42, 50: the statements that carry a sentiment
WithSentiment(segs) == SelectSeq(segs, LAMBDA s : s.sentiment /= << >>)

\* report_generator.py 46: the statements that carry an emotion
WithEmotion(segs) == SelectSeq(segs, LAMBDA s : s.emotion /= << >>)

\* Counter(items): the distinct items in order of first occurrence.
RECURSIVE LabelOrder(_)
LabelOrder(items) ==
    IF items = << >> THEN << >>
    ELSE LET before == LabelOrder(SubSeq(items, 1, Len(items) - 1))
             x == items[Len(items)]
         IN IF \E k \in 1..Len(before) : before[k] = x
            THEN before ELSE Append(before, x)

CountLabel(label, items) == Cardinality({k \in 1..Len(items) : items[k] = label})

\* round(a / b) for a >= 0, b > 0, halves going to the even neighbour as
\* Python's round does.  (round works on the binary double: for quotients that
\* are an exact half it can differ from this when the double is not exact;
\* no quotient within the lists explored here is an exact half.)
RoundDiv(a, b) ==
    LET q == a \div b
        r == a % b
    IN IF 2 * r < b THEN q
       ELSE IF 2 * r > b THEN q + 1
       ELSE IF q % 2 = 0 THEN q ELSE q + 1

\* report_generator.py 18-27: one entry per distinct label, in Counter order;
\* the percentage is kept in tenths of a percent (round(..., 1)).
calculate_distribution(items, total) ==
    LET order == LabelOrder(items)
    IN [k \in 1..Len(order) |->
          [ label |-> order[k],
            count |-> CountLabel(order[k], items),
            percentage |-> IF total > 0
                           THEN RoundDiv(1000 * CountLabel(order[k], items), total)
                           ELSE 0 ]]

RECURSIVE SumScores(_)
SumScores(segs) ==
    IF segs = << >> THEN 0 ELSE Head(segs).sentiment[1].score + SumScores(Tail(segs))

\* Mutant of average_score: the default without scores is zero.
average_score_ZeroDefault(statements) ==
    LET scored_statements == WithSentiment(statements)
    IN IF scored_statements /= << >>
       THEN RoundDiv(SumScores(scored_statements), Len(scored_statements))
       ELSE 0

\* report_generator.py 50-51: round(sum(scores) / len(scores), 3) in thousandths,
\* 0.5 when no statement carries a sentiment.
average_score(statements) ==
    LET scored_statements == WithSentiment(statements)
    IN IF scored_statements /= << >>
       THEN RoundDiv(SumScores(scored_statements), Len(scored_statements))
       ELSE 500

\* Mutant of dominant: of the labels of highest count the last one wins.
dominant_LastMax(dist) ==
    IF dist = << >> THEN "N/A"
    ELSE LET k == CHOOSE k \in 1..Len(dist) :
                     /\ \A p \in 1..Len(dist) : dist[p].count <= dist[k].count
                     /\ \A p \in (k + 1)..Len(dist) : dist[p].count < dist[k].count
         IN dist[k].label

\* report_generator.py 54-59: max(dist, key=count, default="N/A"), the first of
\* the labels of highest count in the order of the mapping.
dominant(dist) ==
    IF dist = << >> THEN "N/A"
    ELSE LET k == CHOOSE k \in 1..Len(dist) :
                     /\ \A p \in 1..Len(dist) : dist[p].count <= dist[k].count
                     /\ \A p \in 1..(k - 1) : dist[p].count < dist[k].count
         IN dist[k].label

\* report_generator.py 64: round(duration_seconds, 2), thousandths of a second
\* to hundredths.
round_duration(duration_seconds) == RoundDiv(duration_seconds, 10)

\* report_generator.py 30-84
generate_report(segs, duration_seconds, language) ==
    LET statements == Statements(segs)
        sentiments == [k \in 1..Len(WithSentiment(statements)) |->
                          WithSentiment(statements)[k].sentiment[1].label]
        sentiment_dist == calculate_distribution(sentiments, Len(statements))
        emotions == [k \in 1..Len(WithEmotion(statements)) |->
                        WithEmotion(statements)[k].emotion[1].label]
        emotion_dist == calculate_distribution(emotions, Len(statements))
    IN
    [ metadata |-> [duration_seconds |-> round_duration(duration_seconds),
                    language |-> language],
      segments |-> segs,
      report   |-> [ total_segments   |-> Len(segs),
                     total_questions  |-> CountRole(segs, "question"),
                     total_statements |-> Len(statements),
                     sentiment_distribution  |-> sentiment_dist,
                     emotion_distribution    |-> emotion_dist,
                     average_sentiment_score |-> average_score(statements),
                     dominant_sentiment |-> dominant(sentiment_dist),
                     dominant_emotion   |-> dominant(emotion_dist) ] ]

\* ------------------------------------------------- collaborators' outputs

\* diarize_audio: up to MaxSegs turns, one second each, in start order.
DiarizationOutputs ==
    UNION { { [k \in 1..n |-> [start |-> 1000 * (k - 1), end |-> 1000 * k,
                               speaker |-> f[k]]]
              : f \in [1..n -> Speakers] } : n \in 0..MaxSegs }

\* transcribe_segments: one TranscribedSegment per segment, same order.
TranscriptionOutputs(segs, language) ==
    { [k \in 1..Len(segs) |->
          [start |-> segs[k].start, end |-> segs[k].end, speaker |-> segs[k].speaker,
           text |-> f[k], language |-> language]]
      : f \in [1..Len(segs) -> Texts] }

\* Mutant of AnalyzedSegment: the loop index is used as the id (ids from 0).
AnalyzedSegment_ZeroBased(seg, segment_id, r, speaker_role, sentiment, emotion) ==
    [ segment_id |-> segment_id - 1, start |-> seg.start, end |-> seg.end,
      speaker |-> seg.speaker, text |-> seg.text, language |-> seg.language,
      role |-> r, speaker_role |-> speaker_role,
      sentiment |-> sentiment, emotion |-> emotion, paired_with |-> << >> ]

\* Mutant of AnalyzedSegment: the segment is created already carrying a pairing.
AnalyzedSegment_PrePaired(seg, segment_id, r, speaker_role, sentiment, emotion) ==
    [ segment_id |-> segment_id, start |-> seg.start, end |-> seg.end,
      speaker |-> seg.speaker, text |-> seg.text, language |-> seg.language,
      role |-> r, speaker_role |-> speaker_role,
      sentiment |-> sentiment, emotion |-> emotion, paired_with |-> <<segment_id>> ]

\* runner.py 126-138: the constructor call, paired_with=None
AnalyzedSegment(seg, segment_id, r, speaker_role, sentiment, emotion) ==
    [ segment_id |-> segment_id, start |-> seg.start, end |-> seg.end,
      speaker |-> seg.speaker, text |-> seg.text, language |-> seg.language,
      role |-> r, speaker_role |-> speaker_role,
      sentiment |-> sentiment, emotion |-> emotion, paired_with |-> << >> ]

\* ----------------------------------------------------------- run_pipeline

\* A collaborator call and what came back from it.
Call(fn, k, ret) == trace' = Append(trace, <<fn, k, ret>>)

start_phase(p, name) == [p EXCEPT ![name] = "started"]

complete_phase(p, name) == [p EXCEPT ![name] = "completed"]

\* Mutant of Propagate: the exception is swallowed and the run reports None.
Propagate_Swallowed == pc' = "returned" /\ result' = <<"None">>

\* An exception leaves run_pipeline through the with block: nothing is caught
\* (PipelineProgress.__exit__ returns False).
Propagate == pc' = "raised" /\ result' = <<"exception">>

ReturnNone == pc' = "returned" /\ result' = <<"None">>

\* runner.py 56-59
AudioConversion ==
    /\ pc = "Audio Conversion"
    /\ \/ /\ Call("ensure_wav_audio", 0, "True")
          /\ progress' = complete_phase(progress, "Audio Conversion")
          /\ pc' = "Speaker Diarization"
          /\ UNCHANGED result
       \/ /\ Call("ensure_wav_audio", 0, "False")
          /\ progress' = start_phase(progress, "Audio Conversion")
          /\ ReturnNone
       \/ /\ Call("ensure_wav_audio", 0, "raise")
          /\ progress' = start_phase(progress, "Audio Conversion")
          /\ Propagate
    /\ UNCHANGED << artifact, saved, segments, clip_paths, transcribed, detected_lang,
                    lang, speaker_map, idx, role, analysis, analyzed_segments, pairVars, scored,
                    mpc, main_result >>

\* Mutant of NoSegments: the emptiness test is lost.
NoSegments_Never(out) == FALSE

\* runner.py 64: not segments
NoSegments(out) == ~(Len(out) > 0)

\* runner.py 62-66
SpeakerDiarization ==
    /\ pc = "Speaker Diarization"
    /\ \/ \E out \in DiarizationOutputs :
            /\ segments' = out
            /\ IF NoSegments(out)
               THEN /\ Call("diarize_audio", 0, "empty")
                    /\ progress' = start_phase(progress, "Speaker Diarization")
                    /\ ReturnNone
               ELSE /\ Call("diarize_audio", 0, IF Len(out) > 0 THEN "segments" ELSE "empty")
                    /\ progress' = complete_phase(progress, "Speaker Diarization")
                    /\ pc' = "Audio Segmentation"
                    /\ UNCHANGED result
       \/ /\ Call("diarize_audio", 0, "raise")
          /\ progress' = start_phase(progress, "Speaker Diarization")
          /\ Propagate
          /\ UNCHANGED segments
    /\ UNCHANGED << artifact, saved, clip_paths, transcribed, detected_lang,
                    lang, speaker_map, idx, role, analysis, analyzed_segments, pairVars, scored,
                    mpc, main_result >>

\* runner.py 69-71
AudioSegmentation ==
    /\ pc = "Audio Segmentation"
    /\ \/ /\ Call("split_audio_segments", 0, "clips")
          /\ clip_paths' = [k \in 1..Len(segments) |-> k - 1]
          /\ progress' = complete_phase(progress, "Audio Segmentation")
          /\ pc' = "Transcription"
          /\ UNCHANGED result
       \/ /\ Call("split_audio_segments", 0, "raise")
          /\ progress' = start_phase(progress, "Audio Segmentation")
          /\ Propagate
          /\ UNCHANGED clip_paths
    /\ UNCHANGED << artifact, saved, segments, transcribed, detected_lang,
                    lang, speaker_map, idx, role, analysis, analyzed_segments, pairVars, scored,
                    mpc, main_result >>

\* Mutant of ResolveLanguage: the detected language is used whatever it is.
ResolveLanguage_Identity(detected) == detected

\* runner.py 81
ResolveLanguage(detected) == IF detected \in SupportedLangs THEN detected ELSE "en"

\* runner.py 74-86: transcription, the working language, and the two phases
\* the code starts before the mapping.
Transcription ==
    /\ pc = "Transcription"
    /\ \/ \E dl \in DetectedLangs : \E out \in TranscriptionOutputs(segments, dl) :
            /\ Call("transcribe_segments", 0, dl)
            /\ transcribed' = out
            /\ detected_lang' = dl
            /\ lang' = ResolveLanguage(dl)
            /\ progress' = start_phase(start_phase(
                               complete_phase(progress, "Transcription"),
                               "Question Classification"), "Sentiment Analysis")
            /\ pc' = "Speaker Mapping"
            /\ UNCHANGED result
       \/ /\ Call("transcribe_segments", 0, "raise")
          /\ progress' = start_phase(progress, "Transcription")
          /\ Propagate
          /\ UNCHANGED << transcribed, detected_lang, lang >>
    /\ UNCHANGED << artifact, saved, segments, clip_paths,
                    speaker_map, idx, role, analysis, analyzed_segments, pairVars, scored,
                    mpc, main_result >>

\* Mutant of LoopAt: the loop is left after its first iteration.
LoopAt_SingleIteration(k) ==
    IF k < 1 /\ k < Len(transcribed) THEN "classify" ELSE "Q&A Pairing"

\* Mutant of LoopAt: the loop stops one segment early.
LoopAt_OffByOne(k) == IF k + 1 < Len(transcribed) THEN "classify" ELSE "Q&A Pairing"

\* Where the for loop of runner.py 93 goes with index k: its body, or past it.
LoopAt(k) == IF k < Len(transcribed) THEN "classify" ELSE "Q&A Pairing"

\* runner.py 140-141, once the loop is over
LoopProgress(p, k) ==
    IF k < Len(transcribed) THEN p
    ELSE complete_phase(complete_phase(p, "Question Classification"),
                        "Sentiment Analysis")

\* runner.py 88-92
SpeakerMapping ==
    /\ pc = "Speaker Mapping"
    /\ Call("map_speakers", 0, "map")
    /\ speaker_map' = map_speakers(transcribed)
    /\ analyzed_segments' = << >>
    /\ idx' = 0
    /\ pc' = LoopAt(0)
    /\ progress' = LoopProgress(complete_phase(progress, "Speaker Mapping"), 0)
    /\ UNCHANGED << result, artifact, saved, segments, clip_paths, transcribed,
                    detected_lang, lang, role, analysis, pairVars, scored,
                    mpc, main_result >>

\* runner.py 94-98: the role of transcribed[idx]
ClassifySegment ==
    /\ pc = "classify"
    /\ LET seg == transcribed[idx + 1] IN
       IF ~StrTruthy(Strip(seg.text))
       THEN /\ role' = "statement"
            /\ pc' = "score"
            /\ UNCHANGED << trace, result >>
       ELSE \/ \E r \in Roles :
                 /\ Call("classify_question", idx + 1, r)
                 /\ role' = r
                 /\ pc' = "score"
                 /\ UNCHANGED result
            \/ /\ Call("classify_question", idx + 1, "raise")
               /\ Propagate
               /\ UNCHANGED role
    /\ UNCHANGED << artifact, saved, progress, segments, clip_paths, transcribed,
                    detected_lang, lang, speaker_map, idx, analysis,
                    analyzed_segments, pairVars, scored,
                    mpc, main_result >>

\* runner.py 106: one call analyze_text(seg.text, lang) for segment k (1-based)
\* and what it returned (<< >> when it raised).
ScorerCall(k, text, language, returned) ==
    [ segment |-> k, text |-> text, language |-> language, returned |-> returned ]

\* Mutant of AppendAnalyzed: the scorer's two results are attached swapped.
AppendAnalyzed_Swapped(seg, sentiment, emotion) ==
    /\ analyzed_segments' = Append(analyzed_segments,
           AnalyzedSegment(seg, idx + 1, role,
                           get_speaker_role(seg.speaker, speaker_map),
                           emotion, sentiment))
    /\ idx' = idx + 1
    /\ pc' = LoopAt(idx + 1)
    /\ progress' = LoopProgress(progress, idx + 1)
    /\ UNCHANGED result

\* runner.py 126-138 and the loop's next iteration
AppendAnalyzed(seg, sentiment, emotion) ==
    /\ analyzed_segments' = Append(analyzed_segments,
           AnalyzedSegment(seg, idx + 1, role,
                           get_speaker_role(seg.speaker, speaker_map),
                           sentiment, emotion))
    /\ idx' = idx + 1
    /\ pc' = LoopAt(idx + 1)
    /\ progress' = LoopProgress(progress, idx + 1)
    /\ UNCHANGED result

\* runner.py 100-138: sentiment and emotion of transcribed[idx], then the append
ScoreSegment ==
    /\ pc = "score"
    /\ LET seg == transcribed[idx + 1] IN
       IF ~StrTruthy(Strip(seg.text))
       THEN /\ AppendAnalyzed(seg, << >>, << >>)
            /\ UNCHANGED << trace, scored >>
       ELSE IF role = "statement"
       THEN \/ \E out \in AnalyzerOutputs :
                 /\ Call("analyze_text", idx + 1, lang)
                 /\ scored' = Append(scored, ScorerCall(idx + 1, seg.text, lang, <<out>>))
                 /\ AppendAnalyzed(seg, <<out[1]>>, <<out[2]>>)
            \/ /\ Call("analyze_text", idx + 1, "raise")
               /\ scored' = Append(scored, ScorerCall(idx + 1, seg.text, lang, << >>))
               /\ Propagate
               /\ UNCHANGED << analyzed_segments, idx, progress >>
       ELSE /\ AppendAnalyzed(seg, <<PlaceholderSentiment>>, <<PlaceholderEmotion>>)
            /\ UNCHANGED << trace, scored >>
    /\ UNCHANGED << artifact, saved, segments, clip_paths, transcribed,
                    detected_lang, lang, speaker_map, role, analysis, pairVars,
                    mpc, main_result >>

\* ------------------------------------------------- pair_questions_answers

\* Mutant of IsAnchor: the speaker's role is not looked at.
IsAnchor_AnySpeaker(seg) == seg.role = "question"

\* qa_pairer.py 43: the anchor condition
IsAnchor(seg) == seg.speaker_role = "Interviewer" /\ seg.role = "question"

\* Mutant of InRun: the run does not stop at an Interviewer segment.
InRun_IgnoresSpeaker(segs, k) == k < Len(segs)

\* qa_pairer.py 48: the inner loop goes on while this holds
InRun(segs, k) == k < Len(segs) /\ segs[k + 1].speaker_role /= "Interviewer"

\* Mutant of HasText: the text is tested without being trimmed.
HasText_NoStrip(seg) == StrTruthy(seg.text)

\* qa_pairer.py 50: the answer counts when its trimmed text is non-empty
HasText(seg) == StrTruthy(Strip(seg.text))

\* Mutant of PairAnswer: the question's id lands in the wrong field.
PairAnswer_WrongField(segs, k, qid) == [segs EXCEPT ![k + 1].segment_id = qid]

\* qa_pairer.py 51: answer.paired_with = question_id
PairAnswer(segs, k, qid) == [segs EXCEPT ![k + 1].paired_with = <<qid>>]

\* qa_pairer.py 55-56
NextFirstAnswer(first, answer) ==
    IF first = << >> THEN <<answer.segment_id>> ELSE first

\* qa_pairer.py 59-60: seg.paired_with = first_answer_id, when it is truthy
PairQuestion(segs, k, first) ==
    IF OptIntTruthy(first) THEN [segs EXCEPT ![k + 1].paired_with = first] ELSE segs

\* Mutant of AfterRun: the outer index stays on the anchor.
AfterRun_Stay(outer, inner) == outer

\* qa_pairer.py 65: i = j, the outer index jumps to where the inner run stopped
AfterRun(outer, inner) == inner

\* qa_pairer.py 37-40
PairEntry ==
    /\ ppc = "entry"
    /\ IF ~(Len(analyzed_segments) > 0)
       THEN ppc' = "returned" /\ UNCHANGED i
       ELSE ppc' = "outer" /\ i' = 0
    /\ UNCHANGED << runVars, analyzed_segments, j, question_id, first_answer_id,
                    pair_input >>

\* qa_pairer.py 41-47 and 66-67: one test of the outer loop
PairOuter ==
    /\ ppc = "outer"
    /\ IF i < Len(analyzed_segments)
       THEN IF IsAnchor(analyzed_segments[i + 1])
            THEN /\ question_id' = <<analyzed_segments[i + 1].segment_id>>
                 /\ first_answer_id' = << >>
                 /\ j' = i + 1
                 /\ ppc' = "inner"
                 /\ UNCHANGED i
            ELSE /\ i' = i + 1
                 /\ UNCHANGED << ppc, j, question_id, first_answer_id >>
       ELSE /\ ppc' = "return"
            /\ UNCHANGED << i, j, question_id, first_answer_id >>
    /\ UNCHANGED << runVars, analyzed_segments, pair_input >>

\* qa_pairer.py 48-65: one test of the inner loop; its body, or the steps after it
PairInner ==
    /\ ppc = "inner"
    /\ IF InRun(analyzed_segments, j)
       THEN /\ IF HasText(analyzed_segments[j + 1])
               THEN /\ analyzed_segments' =
                           PairAnswer(analyzed_segments, j, question_id[1])
                    /\ first_answer_id' =
                           NextFirstAnswer(first_answer_id, analyzed_segments[j + 1])
               ELSE UNCHANGED << analyzed_segments, first_answer_id >>
            /\ j' = j + 1
            /\ UNCHANGED << ppc, i >>
       ELSE /\ analyzed_segments' = PairQuestion(analyzed_segments, i, first_answer_id)
            /\ i' = AfterRun(i, j)
            /\ ppc' = "outer"
            /\ UNCHANGED << j, first_answer_id >>
    /\ UNCHANGED << runVars, question_id, pair_input >>

\* qa_pairer.py 69
PairReturn ==
    /\ ppc = "return"
    /\ ppc' = "returned"
    /\ UNCHANGED << runVars, analyzed_segments, i, j, question_id, first_answer_id,
                    pair_input >>

\* runner.py 144-145: the call
QAPairingCall ==
    /\ pc = "Q&A Pairing"
    /\ ppc = "idle"
    /\ Call("pair_questions_answers", 0, "call")
    /\ progress' = start_phase(progress, "Q&A Pairing")
    /\ pair_input' = analyzed_segments
    /\ ppc' = "entry"
    /\ UNCHANGED << pc, result, artifact, saved, segments, clip_paths, transcribed,
                    detected_lang, lang, speaker_map, idx, role, analysis,
                    analyzed_segments, i, j, question_id, first_answer_id, scored,
                    mpc, main_result >>

\* runner.py 145-146: the call has returned
QAPairingComplete ==
    /\ pc = "Q&A Pairing"
    /\ ppc = "returned"
    /\ progress' = complete_phase(progress, "Q&A Pairing")
    /\ pc' = "Report Generation"
    /\ UNCHANGED << trace, result, artifact, saved, segments, clip_paths, transcribed,
                    detected_lang, lang, speaker_map, idx, role, analysis,
                    analyzed_segments, pairVars, scored,
                    mpc, main_result >>

\* Mutant of Duration: the two ends of the list are taken the wrong way round.
Duration_Swapped(segs) ==
    IF Len(segs) > 0 THEN segs[1].end - segs[Len(segs)].start ELSE 0

\* runner.py 150
Duration(segs) == IF Len(segs) > 0 THEN segs[Len(segs)].end - segs[1].start ELSE 0

\* runner.py 149-157
ReportGeneration ==
    /\ pc = "Report Generation"
    /\ Call("generate_report", 0, "analysis")
    /\ progress' = start_phase(progress, "Report Generation")
    /\ analysis' = <<generate_report(analyzed_segments, Duration(segments),
                                     detected_lang)>>
    /\ pc' = "save_analysis"
    /\ UNCHANGED << result, artifact, saved, segments, clip_paths, transcribed,
                    detected_lang, lang, speaker_map, idx, role,
                    analyzed_segments, pairVars, scored,
                    mpc, main_result >>

\* What save_analysis (report_generator.py 87-93) can do to the file: mkdir or
\* open fails and nothing is written, json.dump fails after open has created
\* the file, or the whole document is written.
SaveOutcomes == {"complete", "absent", "partial"}

\* runner.py 158-161
SaveAnalysis ==
    /\ pc = "save_analysis"
    /\ saved' = Append(saved, analysis[1])
    /\ \E out \in SaveOutcomes :
        /\ Call("save_analysis", 0, IF out = "complete" THEN "None" ELSE "raise")
        /\ artifact' = out
        /\ IF out = "complete"
           THEN /\ progress' = complete_phase(progress, "Report Generation")
                /\ pc' = "returned"
                /\ result' = <<"analysis">>
           ELSE /\ Propagate
                /\ UNCHANGED progress
    /\ UNCHANGED << segments, clip_paths, transcribed, detected_lang, lang,
                    speaker_map, idx, role, analysis, analyzed_segments, pairVars, scored,
                    mpc, main_result >>

\* ------------------------------------------------------------ run_pipeline

Init ==
    /\ pc = "Audio Conversion"
    /\ trace = << >>
    /\ result = << >>
    /\ artifact = "absent"
    /\ saved = << >>
    /\ progress = [n \in PhaseNames |-> "hidden"]
    /\ segments = << >>
    /\ clip_paths = << >>
    /\ transcribed = << >>
    /\ detected_lang = "unset"
    /\ lang = "unset"
    /\ speaker_map = << >>
    /\ idx = 0
    /\ role = "unset"
    /\ analyzed_segments = << >>
    /\ analysis = << >>
    /\ scored = << >>
    /\ mpc = "none"
    /\ main_result = << >>
    /\ ppc = "idle"
    /\ i = 0
    /\ j = 0
    /\ question_id = << >>
    /\ first_answer_id = << >>
    /\ pair_input = << >>

Next ==
    \/ AudioConversion
    \/ SpeakerDiarization
    \/ AudioSegmentation
    \/ Transcription
    \/ SpeakerMapping
    \/ ClassifySegment
    \/ ScoreSegment
    \/ QAPairingCall
    \/ PairEntry
    \/ PairOuter
    \/ PairInner
    \/ PairReturn
    \/ QAPairingComplete
    \/ ReportGeneration
    \/ SaveAnalysis

Spec == Init /\ [][Next]_vars

\* -------------------------------------------------------------------- main

\* main.py 50-64: the calls main makes before its try block, in order
\* (get_settings at line 52 returns what setup_logging already cached).
MainSetup ==
    << "setup_logging", "cleanup_folders", "setup_environment", "get_project_paths" >>

\* The setup calls that can raise: reading config.yaml (settings.py 69-77),
\* deleting files (cleanup.py 36-49), a missing HF_TOKEN (environment.py 27-32).
SetupCanRaise == {"setup_logging", "cleanup_folders", "setup_environment"}

\* What follows the setup call at position k.
AfterSetup(k) == IF k < Len(MainSetup) THEN MainSetup[k + 1] ELSE "run_pipeline"

\* An exception raised outside the try block of main.py 67-93 leaves main.
Uncaught == mpc' = "raised" /\ main_result' = <<"exception">>

\* main.py 50-64: one setup call
MainSetupStep ==
    /\ \E k \in 1..Len(MainSetup) :
          /\ mpc = MainSetup[k]
          /\ \/ /\ Call(MainSetup[k], 0, "done")
                /\ mpc' = AfterSetup(k)
                /\ UNCHANGED main_result
             \/ /\ MainSetup[k] \in SetupCanRaise
                /\ Call(MainSetup[k], 0, "raise")
                /\ Uncaught
    /\ UNCHANGED << pc, result, artifact, saved, progress, segments, clip_paths,
                    transcribed, detected_lang, lang, speaker_map, idx, role, analysis,
                    scored, analyzed_segments, pairVars >>

\* main.py 68-74: run_pipeline is entered
MainRunPipeline ==
    /\ mpc = "run_pipeline"
    /\ pc = "not called"
    /\ pc' = "Audio Conversion"
    /\ UNCHANGED << trace, result, artifact, saved, progress, segments, clip_paths,
                    transcribed, detected_lang, lang, speaker_map, idx, role, analysis,
                    scored, analyzed_segments, pairVars, mpc, main_result >>

\* main.py 76-93: run_pipeline has returned or raised
MainReturn ==
    /\ mpc = "run_pipeline"
    /\ pc \in {"returned", "raised"}
    /\ main_result' = IF result = <<"analysis">> THEN <<"True">> ELSE <<"False">>
    /\ mpc' = "returned"
    /\ UNCHANGED << pc, trace, result, artifact, saved, progress, segments, clip_paths,
                    transcribed, detected_lang, lang, speaker_map, idx, role, analysis,
                    scored, analyzed_segments, pairVars >>

InitMain ==
    /\ pc = "not called"
    /\ trace = << >>
    /\ result = << >>
    /\ artifact = "absent"
    /\ saved = << >>
    /\ progress = [n \in PhaseNames |-> "hidden"]
    /\ segments = << >>
    /\ clip_paths = << >>
    /\ transcribed = << >>
    /\ detected_lang = "unset"
    /\ lang = "unset"
    /\ speaker_map = << >>
    /\ idx = 0
    /\ role = "unset"
    /\ analyzed_segments = << >>
    /\ analysis = << >>
    /\ scored = << >>
    /\ mpc = MainSetup[1]
    /\ main_result = << >>
    /\ ppc = "idle"
    /\ i = 0
    /\ j = 0
    /\ question_id = << >>
    /\ first_answer_id = << >>
    /\ pair_input = << >>

\* main: its setup, the pipeline it calls, and its return.
NextMain ==
    \/ MainSetupStep
    \/ MainRunPipeline
    \/ Next
    \/ MainReturn

SpecMain == InitMain /\ [][NextMain]_vars

\* ------------------------------- pair_questions_answers on its own inputs

\* The segment_ids of an input of length n: 0..n-1 rotated by shift, so that
\* every position can carry the id 0.
RotatedId(k, n, shift) == (k - 1 + shift) % n

PairSegment(k, n, shift, speaker_role, r, text) ==
    [ segment_id |-> RotatedId(k, n, shift), start |-> k - 1, end |-> k,
      speaker |-> IF speaker_role = "Interviewer" THEN "SPEAKER_00" ELSE "SPEAKER_01",
      text |-> text, language |-> "en", role |-> r, speaker_role |-> speaker_role,
      sentiment |-> << >>, emotion |-> << >>, paired_with |-> << >> ]

\* A list of n segments with distinct non-negative ids.
PairInput(n, shift, sr, r, t) ==
    [k \in 1..n |-> PairSegment(k, n, shift, sr[k], r[k], t[k])]

Shifts(n) == 0..(IF n = 0 THEN 0 ELSE n - 1)

InitPair ==
    /\ pc = "Q&A Pairing"
    /\ trace = << >>
    /\ result = << >>
    /\ artifact = "absent"
    /\ saved = << >>
    /\ progress = [n \in PhaseNames |-> "hidden"]
    /\ segments = << >>
    /\ clip_paths = << >>
    /\ transcribed = << >>
    /\ detected_lang = "unset"
    /\ lang = "unset"
    /\ speaker_map = << >>
    /\ idx = 0
    /\ role = "unset"
    /\ analysis = << >>
    /\ scored = << >>
    /\ mpc = "none"
    /\ main_result = << >>
    /\ \E n \in 0..MaxSegs : \E shift \in Shifts(n) :
       \E sr \in [1..n -> SpeakerRoles] : \E r \in [1..n -> Roles] :
       \E t \in [1..n -> Texts] :
            analyzed_segments = PairInput(n, shift, sr, r, t)
    /\ pair_input = analyzed_segments
    /\ ppc = "entry"
    /\ i = 0
    /\ j = 0
    /\ question_id = << >>
    /\ first_answer_id = << >>

\* The pairer, then its caller up to the report built from the paired list.
NextPair ==
    \/ PairEntry
    \/ PairOuter
    \/ PairInner
    \/ PairReturn
    \/ QAPairingComplete
    \/ ReportGeneration

SpecPair == InitPair /\ [][NextPair]_vars

\* One step of pair_questions_answers itself.
PairStep == PairEntry \/ PairOuter \/ PairInner \/ PairReturn

\* The pairer is a sequential loop: while it has a next step it takes it.
SpecPairFair == InitPair /\ [][NextPair]_vars /\ WF_vars(PairStep)

\* ----------------------------------------- generate_report on its own inputs

\* What a segment handed to generate_report may carry as sentiment.
SentimentOptions ==
    { << >>, <<[label |-> "POS", score |-> 900]>>, <<[label |-> "NEG", score |-> 700]>>,
      <<PlaceholderSentiment>> }

\* What it may carry as emotion.
EmotionOptions ==
    { << >>, <<[label |-> "joy", score |-> 900]>>, <<PlaceholderEmotion>> }

ReportSegment(k, r, sentiment, emotion) ==
    [ segment_id |-> k, start |-> k - 1, end |-> k, speaker |-> "SPEAKER_00",
      text |-> <<"a">>, language |-> "en", role |-> r, speaker_role |-> "Interviewee",
      sentiment |-> sentiment, emotion |-> emotion, paired_with |-> << >> ]

ReportInput(n, r, s, e) == [k \in 1..n |-> ReportSegment(k, r[k], s[k], e[k])]

InitReport ==
    /\ pc = "Report Generation"
    /\ trace = << >>
    /\ result = << >>
    /\ artifact = "absent"
    /\ saved = << >>
    /\ progress = [n \in PhaseNames |-> "hidden"]
    /\ segments = << >>
    /\ clip_paths = << >>
    /\ transcribed = << >>
    /\ detected_lang = "en"
    /\ lang = "en"
    /\ speaker_map = << >>
    /\ idx = 0
    /\ role = "unset"
    /\ \E n \in 0..MaxSegs : \E r \in [1..n -> Roles] :
       \E s \in [1..n -> SentimentOptions] : \E e \in [1..n -> EmotionOptions] :
            analyzed_segments = ReportInput(n, r, s, e)
    /\ analysis = << >>
    /\ scored = << >>
    /\ mpc = "none"
    /\ main_result = << >>
    /\ ppc = "returned"
    /\ i = 0
    /\ j = 0
    /\ question_id = << >>
    /\ first_answer_id = << >>
    /\ pair_input = << >>

\* The one call analysis = generate_report(analyzed_segments, ...).
NextReport == ReportGeneration

SpecReport == InitReport /\ [][NextReport]_vars

\* ------------------------------- the end of a run on any diarized timings

\* Segment bounds, in thousandths of a second: any non-negative value is a
\* valid start and a valid end (segment.py 36-37).
Times == {0, 4, 10}

\* A diarization output with the given starts and ends.
TimedSegments(n, st, en) ==
    [k \in 1..n |-> [start |-> st[k], end |-> en[k], speaker |-> "SPEAKER_00"]]

\* What the run has made of it when the report is due, every segment silent.
TimedTranscribed(segs) ==
    [k \in 1..Len(segs) |->
        [start |-> segs[k].start, end |-> segs[k].end, speaker |-> segs[k].speaker,
         text |-> << >>, language |-> "en"]]

TimedAnalyzed(segs) ==
    [k \in 1..Len(segs) |->
        AnalyzedSegment(TimedTranscribed(segs)[k], k, "statement", "Interviewer",
                        << >>, << >>)]

InitDuration ==
    /\ pc = "Report Generation"
    /\ trace = << >>
    /\ result = << >>
    /\ artifact = "absent"
    /\ saved = << >>
    /\ progress = [n \in PhaseNames |-> "hidden"]
    /\ \E n \in 1..MaxSegs : \E st \in [1..n -> Times] : \E en \in [1..n -> Times] :
          /\ \A k \in 1..(n - 1) : st[k] <= st[k + 1]
          /\ segments = TimedSegments(n, st, en)
    /\ clip_paths = [k \in 1..Len(segments) |-> k - 1]
    /\ transcribed = TimedTranscribed(segments)
    /\ detected_lang = "en"
    /\ lang = "en"
    /\ speaker_map = map_speakers(transcribed)
    /\ idx = Len(segments)
    /\ role = "statement"
    /\ analyzed_segments = TimedAnalyzed(segments)
    /\ analysis = << >>
    /\ scored = << >>
    /\ mpc = "none"
    /\ main_result = << >>
    /\ ppc = "returned"
    /\ i = 0
    /\ j = 0
    /\ question_id = << >>
    /\ first_answer_id = << >>
    /\ pair_input = analyzed_segments

\* runner.py 148-161: the report and its saving.
NextDuration ==
    \/ ReportGeneration
    \/ SaveAnalysis

SpecDuration == InitDuration /\ [][NextDuration]_vars

\* ------------------------------------------- map_speakers on its own inputs

\* Speaker codes of a conversation with up to three voices.
MapSpeakers == {"SPEAKER_00", "SPEAKER_01", "SPEAKER_02"}

\* A transcribed list whose k-th segment was spoken by f[k].
MapInput(n, f) ==
    [k \in 1..n |-> [start |-> k - 1, end |-> k, speaker |-> f[k],
                     text |-> <<"a">>, language |-> "en"]]

InitMap ==
    /\ pc = "Speaker Mapping"
    /\ trace = << >>
    /\ result = << >>
    /\ artifact = "absent"
    /\ saved = << >>
    /\ progress = [n \in PhaseNames |-> "hidden"]
    /\ segments = << >>
    /\ clip_paths = << >>
    /\ \E n \in 0..MaxMapLen : \E f \in [1..n -> MapSpeakers] :
            transcribed = MapInput(n, f)
    /\ detected_lang = "en"
    /\ lang = "en"
    /\ speaker_map = << >>
    /\ idx = 0
    /\ role = "unset"
    /\ analyzed_segments = << >>
    /\ analysis = << >>
    /\ scored = << >>
    /\ mpc = "none"
    /\ main_result = << >>
    /\ ppc = "idle"
    /\ i = 0
    /\ j = 0
    /\ question_id = << >>
    /\ first_answer_id = << >>
    /\ pair_input = << >>

\* The one call speaker_map = map_speakers(transcribed).
NextMap == SpeakerMapping

SpecMap == InitMap /\ [][NextMap]_vars

\* ===================================================== claims: run_pipeline

Called(fn) == \E p \in 1..Len(trace) : trace[p][1] = fn

Stages ==
    << "ensure_wav_audio", "diarize_audio", "split_audio_segments",
       "transcribe_segments", "map_speakers", "pair_questions_answers",
       "generate_report", "save_analysis" >>

PerSegment == {"classify_question", "analyze_text"}

\* The order in which run_pipeline reaches its collaborators.
CodeRank(fn) ==
    CASE fn = "ensure_wav_audio" -> 1
      [] fn = "diarize_audio" -> 2
      [] fn = "split_audio_segments" -> 3
      [] fn = "transcribe_segments" -> 4
      [] fn = "map_speakers" -> 5
      [] fn \in PerSegment -> 6
      [] fn = "pair_questions_answers" -> 7
      [] fn = "generate_report" -> 8
      [] fn = "save_analysis" -> 9

\* The order of the phase list: the mapping after classification and scoring.
PhaseListRank(fn) ==
    CASE fn = "map_speakers" -> 6
      [] fn \in PerSegment -> 5
      [] OTHER -> CodeRank(fn)

\* Within the per-segment phase: segment by segment, classification first.
SegmentOrder(a, b) ==
    \/ a[2] < b[2]
    \/ a[2] = b[2] /\ a[1] = "classify_question" /\ b[1] = "analyze_text"

C2_FatalAborts ==
    \A p \in 1..Len(trace) :
        (trace[p] = <<"ensure_wav_audio", 0, "False">>
           \/ trace[p] = <<"diarize_audio", 0, "empty">>)
        => /\ p = Len(trace)
           /\ pc = "returned"
           /\ result = <<"None">>
           /\ saved = << >>
           /\ artifact = "absent"
           /\ analyzed_segments = << >>
           /\ ppc = "idle"

\* Diarization has returned no segment after a successful conversion.
C2_Witness ==
    /\ trace = << <<"ensure_wav_audio", 0, "True">>, <<"diarize_audio", 0, "empty">> >>
    /\ result = <<"None">>

\* C3 (as claimed): a run that returns an analysis has handed exactly that
\* analysis to save_analysis, once, after generate_report, and the file is
\* complete; a run that returns None or ends with an exception has never
\* invoked save_analysis and has left no file.
C3_SavedIffReturned ==
    /\ result = <<"analysis">> =>
          /\ saved = analysis
          /\ artifact = "complete"
          /\ Len(trace) >= 2
          /\ trace[Len(trace) - 1][1] = "generate_report"
          /\ trace[Len(trace)][1] = "save_analysis"
    /\ result \in {<<"None">>, <<"exception">>} =>
          /\ saved = << >>
          /\ artifact = "absent"

PairDone == ppc = "returned"

Positions == 1..Len(pair_input)

AnchorAt(k) ==
    pair_input[k].speaker_role = "Interviewer" /\ pair_input[k].role = "question"

NonInterviewerAt(k) == pair_input[k].speaker_role /= "Interviewer"

\* The trimmed text is non-empty: some character is not whitespace.
TextAt(k) == \E p \in 1..Len(pair_input[k].text) : pair_input[k].text[p] \notin Whitespace

\* The contiguous run of non-Interviewer segments that follows position k.
RunOf(k) ==
    { m \in Positions : m > k /\ \A q \in (k + 1)..m : NonInterviewerAt(q) }

AnswersOf(k) == { m \in RunOf(k) : TextAt(m) }

FirstAnswerOf(k) == CHOOSE m \in AnswersOf(k) : \A q \in AnswersOf(k) : m <= q

IdAt(k) == pair_input[k].segment_id

PairedAt(k) == analyzed_segments[k].paired_with

DistinctIds == \A a, b \in Positions : a /= b => IdAt(a) /= IdAt(b)

\* C5 (as claimed): on distinct non-negative ids, every anchor whose run holds
\* a segment with non-empty trimmed text ends up paired with the first such
\* segment of the run.
C5_AnchorPairedWithFirstAnswer ==
    PairDone /\ DistinctIds /\ (\A k \in Positions : IdAt(k) >= 0) =>
        \A k \in Positions :
            AnchorAt(k) /\ AnswersOf(k) /= {} =>
                PairedAt(k) = <<IdAt(FirstAnswerOf(k))>>

\* C6 (as claimed): every non-empty answer of an anchor's run points to the
\* anchor, and the anchor points to the first of them and to no other.
C6_AnswersToAnchorAnchorToFirst ==
    PairDone =>
        \A k \in Positions : AnchorAt(k) =>
            /\ \A m \in AnswersOf(k) : PairedAt(m) = <<IdAt(k)>>
            /\ AnswersOf(k) /= {} => PairedAt(k) = <<IdAt(FirstAnswerOf(k))>>
            /\ \A m \in AnswersOf(k) :
                  PairedAt(k) = <<IdAt(m)>> => IdAt(m) = IdAt(FirstAnswerOf(k))

\* The last Interviewer question of the consecutive Interviewer segments that
\* end at position k, when position k + 1 starts the answers.
LastQuestionBefore(k) ==
    /\ AnchorAt(k)
    /\ k > 1 /\ AnchorAt(k - 1)
    /\ AnswersOf(k) /= {}

\* C7 (as claimed): an anchor at the end of the list or directly followed by
\* an Interviewer segment stays unpaired; of consecutive Interviewer
\* questions the last one is paired with the answers that follow, the
\* earlier ones are not, and the answers point to the last one.
C7_OnlyLastQuestionPairs ==
    PairDone =>
        \A k \in Positions :
            /\ (AnchorAt(k) /\ (k = Len(pair_input) \/ ~NonInterviewerAt(k + 1)))
                  => PairedAt(k) = << >>
            /\ LastQuestionBefore(k) =>
                  /\ PairedAt(k - 1) = << >>
                  /\ PairedAt(k) = <<IdAt(FirstAnswerOf(k))>>
                  /\ \A m \in AnswersOf(k) : PairedAt(m) = <<IdAt(k)>>

\* C8: a non-Interviewer segment whose trimmed text is empty never gets a
\* paired_with, no anchor is paired with it, and the non-empty answers that
\* come after it in the same run are still paired with the run's anchor.
C8_EmptyTextSkipped ==
    /\ \A m \in 1..Len(analyzed_segments) :
          (analyzed_segments[m].speaker_role /= "Interviewer" /\ ~TextAt(m))
              => PairedAt(m) = << >>
    /\ PairDone =>
          \A k \in Positions : AnchorAt(k) =>
              /\ \A e \in RunOf(k) : ~TextAt(e) => PairedAt(k) /= <<IdAt(e)>>
              /\ \A e, m \in RunOf(k) :
                    (~TextAt(e) /\ e < m /\ TextAt(m)) => PairedAt(m) = <<IdAt(k)>>

\* An anchor, an empty answer, then a non-empty answer: the scan is over.
C8_Witness ==
    /\ PairDone
    /\ \E k \in Positions :
          /\ AnchorAt(k)
          /\ (k + 2) \in RunOf(k)
          /\ ~TextAt(k + 1) /\ pair_input[k + 1].text /= << >>
          /\ TextAt(k + 2)
          /\ PairedAt(k + 2) = <<IdAt(k)>>
          /\ PairedAt(k) = <<IdAt(k + 2)>>

NonInterviewerQuestionAt(k) ==
    NonInterviewerAt(k) /\ pair_input[k].role = "question"

\* C9 (as claimed): no other segment's paired_with is ever the segment_id of
\* a question asked by a non-Interviewer, and such a question with non-empty
\* text in an anchor's run gets that anchor's segment_id.
C9_NobodyPointsToIntervieweeQuestion ==
    PairDone =>
        /\ \A q \in Positions : NonInterviewerQuestionAt(q) =>
              \A m \in Positions : m /= q => PairedAt(m) /= <<IdAt(q)>>
        /\ \A k \in Positions : AnchorAt(k) =>
              \A q \in AnswersOf(k) : NonInterviewerQuestionAt(q) =>
                  PairedAt(q) = <<IdAt(k)>>

\* C9 (amended): a question asked by a non-Interviewer never starts a run: no
\* non-Interviewer segment's paired_with is its segment_id, and the only
\* segment that can point to it is the anchor whose first non-empty answer
\* it is; with non-empty text in an anchor's run it gets that anchor's
\* segment_id, and outside every anchor's run it stays unpaired.
C9_IntervieweeQuestionIsAnAnswer ==
    PairDone =>
        /\ \A q \in Positions : NonInterviewerQuestionAt(q) =>
              \A m \in Positions : (m /= q /\ PairedAt(m) = <<IdAt(q)>>) =>
                  /\ AnchorAt(m)
                  /\ q \in AnswersOf(m)
                  /\ q = FirstAnswerOf(m)
        /\ \A k \in Positions : AnchorAt(k) =>
              \A q \in AnswersOf(k) : NonInterviewerQuestionAt(q) =>
                  PairedAt(q) = <<IdAt(k)>>
        /\ \A q \in Positions :
              (NonInterviewerQuestionAt(q) /\ ~\E k \in Positions : AnchorAt(k) /\ q \in RunOf(k))
                  => PairedAt(q) = << >>

\* A non-Interviewer question, followed by a statement of its own speaker
\* role, both answers of the anchor before them.
C9_Witness ==
    /\ PairDone
    /\ \E k \in Positions :
          /\ AnchorAt(k)
          /\ (k + 2) \in AnswersOf(k)
          /\ (k + 1) \in AnswersOf(k)
          /\ NonInterviewerQuestionAt(k + 1)
          /\ PairedAt(k + 1) = <<IdAt(k)>>
          /\ PairedAt(k + 2) = <<IdAt(k)>>
          /\ PairedAt(k) = <<IdAt(k + 1)>>

Unpaired(seg) == [seg EXCEPT !.paired_with = << >>]

\* C10: at every step of the pairer the list has the length and the order it
\* was given and differs from it in paired_with alone; the empty list comes
\* back empty; the start times stay in non-decreasing order, in the list the
\* pairer returns and in the segments of the report built from it.
C10_OnlyPairedWithChanges ==
    /\ Len(analyzed_segments) = Len(pair_input)
    /\ \A k \in Positions : Unpaired(analyzed_segments[k]) = Unpaired(pair_input[k])
    /\ \A a, b \in 1..Len(analyzed_segments) :
          a < b => analyzed_segments[a].start <= analyzed_segments[b].start
    /\ analysis /= << >> =>
          /\ analysis[1].segments = analyzed_segments
          /\ Len(analysis[1].segments) = Len(pair_input)

\* The pairer has returned a list in which it has paired something, and the
\* report has been built from it.
C10_Witness ==
    /\ PairDone
    /\ analysis /= << >>
    /\ Len(pair_input) >= 3
    /\ analyzed_segments /= pair_input

\* ================================== claims: the life of an AnalyzedSegment

\* What one step of a run may do to the list of analyzed segments.
PairedWithStep ==
    /\ Len(analyzed_segments') >= Len(analyzed_segments)
    /\ \A k \in 1..Len(analyzed_segments') :
          IF k > Len(analyzed_segments)
          THEN analyzed_segments'[k].paired_with = << >>
          ELSE /\ Unpaired(analyzed_segments'[k]) = Unpaired(analyzed_segments[k])
               /\ analyzed_segments'[k].paired_with /= analyzed_segments[k].paired_with
                    => /\ analyzed_segments[k].paired_with = << >>
                       /\ analyzed_segments'[k].paired_with /= << >>
                       /\ pc = "Q&A Pairing"
                       /\ ppc = "inner"

\* While the pairer is inside a run, neither the anchor nor anything from the
\* inner index on has been written yet, so no write lands on a written field.
NotYetWritten ==
    ppc = "inner" =>
        \A k \in 1..Len(analyzed_segments) :
            (k = i + 1 \/ k > j) => analyzed_segments[k].paired_with = << >>

\* C11: within one run a segment's paired_with is absent at creation and is
\* written at most once afterwards, only while the pairing phase runs, and no
\* step changes any other field of a segment that already exists.
C11_PairedWithWrittenOnce == [][PairedWithStep /\ NotYetWritten]_vars

\* A completed run in which one segment was paired and another left absent.
C11_Witness ==
    /\ pc = "returned"
    /\ result = <<"analysis">>
    /\ \E k \in 1..Len(analyzed_segments) : analyzed_segments[k].paired_with /= << >>
    /\ \E k \in 1..Len(analyzed_segments) : analyzed_segments[k].paired_with = << >>

\* C12: a paired_with is written, and the pairer is entered, only once the
\* annotation loop has produced role and speaker_role for every transcribed
\* segment.
C12_PairingAfterAnnotation ==
    (ppc /= "idle"
       \/ \E k \in 1..Len(analyzed_segments) : analyzed_segments[k].paired_with /= << >>)
    => /\ pc \notin {"Speaker Mapping", "classify", "score"}
       /\ Len(analyzed_segments) = Len(transcribed)
       /\ \A k \in 1..Len(analyzed_segments) :
             /\ analyzed_segments[k].role \in Roles
             /\ analyzed_segments[k].speaker_role
                    = get_speaker_role(transcribed[k].speaker, speaker_map)
             /\ analyzed_segments[k].speaker_role \in SpeakerRoles

\* The pairer is writing while the list holds several annotated segments.
C12_Witness ==
    /\ ppc = "inner"
    /\ Len(transcribed) >= 2
    /\ \E k \in 1..Len(analyzed_segments) : analyzed_segments[k].paired_with /= << >>

\* ===================================================== claims: map_speakers

\* map_speakers has been applied to transcribed.
Mapped == Called("map_speakers")

SpeakersIn(segs) == { segs[k].speaker : k \in 1..Len(segs) }

SegmentsOf(sp, segs) == Cardinality({k \in 1..Len(segs) : segs[k].speaker = sp})

\* sp speaks strictly less often than every other speaker of segs.
StrictlyLeast(sp, segs) ==
    \A other \in SpeakersIn(segs) \ {sp} : SegmentsOf(sp, segs) < SegmentsOf(other, segs)

\* C13: when one speaker of a non-empty list has strictly fewer segments than
\* every other speaker, map_speakers gives that speaker Interviewer and every
\* other speaker Interviewee, in whatever order the segments come.
C13_StrictlyLeastIsInterviewer ==
    Mapped =>
        \A sp \in SpeakersIn(transcribed) :
            StrictlyLeast(sp, transcribed) =>
                /\ sp \in DOMAIN speaker_map
                /\ speaker_map[sp] = "Interviewer"
                /\ \A other \in SpeakersIn(transcribed) \ {sp} :
                      other \in DOMAIN speaker_map /\ speaker_map[other] = "Interviewee"

\* Three speakers, the least frequent one neither first nor last in the list.
C13_Witness ==
    /\ Mapped
    /\ Cardinality(SpeakersIn(transcribed)) = 3
    /\ \E sp \in SpeakersIn(transcribed) :
          /\ StrictlyLeast(sp, transcribed)
          /\ transcribed[1].speaker /= sp
          /\ transcribed[Len(transcribed)].speaker /= sp
          /\ speaker_map[sp] = "Interviewer"

\* C14: the keys of the mapping are exactly the speakers of the input; the
\* mapping of the empty list is empty; for a non-empty list exactly one
\* speaker is Interviewer and every other one is Interviewee.
C14_OneInterviewer ==
    Mapped =>
        /\ DOMAIN speaker_map = SpeakersIn(transcribed)
        /\ transcribed = << >> => speaker_map = << >>
        /\ transcribed /= << >> =>
              /\ Cardinality({sp \in DOMAIN speaker_map :
                                 speaker_map[sp] = "Interviewer"}) = 1
              /\ \A sp \in DOMAIN speaker_map :
                    speaker_map[sp] \in {"Interviewer", "Interviewee"}

\* Three speakers with one segment each: no one is least, one is Interviewer.
C14_Witness ==
    /\ Mapped
    /\ Len(transcribed) = 3
    /\ Cardinality(SpeakersIn(transcribed)) = 3
    /\ Cardinality({sp \in DOMAIN speaker_map : speaker_map[sp] = "Interviewee"}) = 2

\* ============================================ claims: the annotation loop

\* The trimmed text is empty: every character is whitespace.
EmptyTrimmed(t) == \A p \in 1..Len(t) : t[p] \in Whitespace

\* Positions of trace where fn was called for segment k (1-based).
CallsFor(fn, k) == { p \in 1..Len(trace) : trace[p][1] = fn /\ trace[p][2] = k }

\* Positions of scored that are calls for segment k.
ScoredFor(k) == { p \in 1..Len(scored) : scored[p].segment = k }

\* C15: every call of the scorer made by run_pipeline passes a language of
\* es, en, it, pt: the detected language when it is one of them and en
\* otherwise, the same for every segment of the run.
C15_ScorerLanguage ==
    \A p \in 1..Len(scored) :
        /\ scored[p].language \in {"es", "en", "it", "pt"}
        /\ scored[p].language =
              (IF detected_lang \in {"es", "en", "it", "pt"} THEN detected_lang ELSE "en")
        /\ \A q \in 1..Len(scored) : scored[q].language = scored[p].language

\* Two segments were scored in a run whose detected language is unsupported.
C15_Witness ==
    /\ Len(scored) >= 2
    /\ detected_lang = "fr"
    /\ scored[1].language = "en"
    /\ scored[1].segment /= scored[2].segment

\* C16: a transcribed segment whose trimmed text is empty gets the role
\* statement with sentiment and emotion absent, and neither the classifier
\* nor the scorer is ever called for it.
C16_EmptyTextNotAnalyzed ==
    \A k \in 1..Len(transcribed) :
        EmptyTrimmed(transcribed[k].text) =>
            /\ CallsFor("classify_question", k) = {}
            /\ CallsFor("analyze_text", k) = {}
            /\ ScoredFor(k) = {}
            /\ k <= Len(analyzed_segments) =>
                  /\ analyzed_segments[k].role = "statement"
                  /\ analyzed_segments[k].sentiment = << >>
                  /\ analyzed_segments[k].emotion = << >>

\* A whitespace-only segment was annotated after a segment that was classified.
C16_Witness ==
    /\ Len(analyzed_segments) >= 2
    /\ Len(analyzed_segments) = Len(transcribed)
    /\ transcribed[2].text = <<" ">>
    /\ analyzed_segments[2].sentiment = << >>
    /\ CallsFor("classify_question", 1) /= {}

\* C17: a segment with non-empty trimmed text that the classifier labelled a
\* question carries the placeholder sentiment (NEU, 0.95) and the placeholder
\* emotion (others, 0.95), and the scorer is not called for it.
C17_QuestionGetsPlaceholder ==
    \A k \in 1..Len(analyzed_segments) :
        (~EmptyTrimmed(analyzed_segments[k].text) /\ analyzed_segments[k].role = "question")
        => /\ analyzed_segments[k].sentiment = <<[label |-> "NEU", score |-> 950]>>
           /\ analyzed_segments[k].emotion = <<[label |-> "others", score |-> 950]>>
           /\ CallsFor("analyze_text", k) = {}
           /\ ScoredFor(k) = {}

\* A question was annotated in a run that also scored a statement.
C17_Witness ==
    /\ \E k \in 1..Len(analyzed_segments) :
          /\ analyzed_segments[k].role = "question"
          /\ analyzed_segments[k].sentiment /= << >>
          /\ CallsFor("classify_question", k) /= {}
    /\ Len(scored) >= 1

\* The per-segment calls appear in the trace in index order.
IndexOrder ==
    \A p, q \in 1..Len(trace) :
        (p < q /\ trace[p][1] \in PerSegment /\ trace[q][1] \in PerSegment)
        => trace[p][2] <= trace[q][2]

\* C18: for a segment with non-empty trimmed text labelled a statement the
\* scorer is called exactly once, on that segment's text, after the segment's
\* classification has returned and before any later segment is classified, and
\* what it returned is attached to the segment unchanged; segments are
\* handled one at a time in index order.
C18_StatementScoredOnce ==
    /\ IndexOrder
    /\ \A k \in 1..Len(analyzed_segments) :
          (~EmptyTrimmed(transcribed[k].text) /\ analyzed_segments[k].role = "statement")
          => /\ Cardinality(ScoredFor(k)) = 1
             /\ Cardinality(CallsFor("analyze_text", k)) = 1
             /\ Cardinality(CallsFor("classify_question", k)) = 1
             /\ \A p \in ScoredFor(k) :
                   /\ scored[p].text = transcribed[k].text
                   /\ Len(scored[p].returned) = 1
                   /\ analyzed_segments[k].sentiment = <<scored[p].returned[1][1]>>
                   /\ analyzed_segments[k].emotion = <<scored[p].returned[1][2]>>
             /\ \A c \in CallsFor("classify_question", k) :
                \A a \in CallsFor("analyze_text", k) :
                   /\ trace[c][3] = "statement"
                   /\ c < a
                   /\ \A q \in 1..Len(trace) :
                         (trace[q][1] = "classify_question" /\ trace[q][2] /= k)
                         => (IF trace[q][2] < k THEN q < c ELSE a < q)

\* A statement was scored and the next segment was classified after it.
C18_Witness ==
    /\ Len(analyzed_segments) >= 2
    /\ ~EmptyTrimmed(transcribed[1].text)
    /\ analyzed_segments[1].role = "statement"
    /\ analyzed_segments[1].sentiment = <<[label |-> "NEG", score |-> 700]>>
    /\ analyzed_segments[1].emotion = <<[label |-> "sadness", score |-> 700]>>
    /\ CallsFor("classify_question", 2) /= {}

\* =================================================== claims: generate_report

\* generate_report has returned.
Reported == analysis /= << >>

Report == analysis[1].report

SentimentLabels == {"POS", "NEG", "NEU"}

EmotionLabels == {"joy", "sadness", "others"}

\* The statement segments that carry a sentiment (an emotion) with this label.
StatementsWithSentiment(label) ==
    { k \in 1..Len(analyzed_segments) :
        /\ analyzed_segments[k].role = "statement"
        /\ analyzed_segments[k].sentiment /= << >>
        /\ analyzed_segments[k].sentiment[1].label = label }

StatementsWithEmotion(label) ==
    { k \in 1..Len(analyzed_segments) :
        /\ analyzed_segments[k].role = "statement"
        /\ analyzed_segments[k].emotion /= << >>
        /\ analyzed_segments[k].emotion[1].label = label }

\* The entries of a distribution for one label.
EntriesOf(dist, label) == { k \in 1..Len(dist) : dist[k].label = label }

\* Sum of the sentiment scores of the statements among the first k segments
\* that carry a sentiment, and how many they are.
RECURSIVE ScoreSumUpTo(_)
ScoreSumUpTo(k) ==
    IF k = 0 THEN 0
    ELSE ScoreSumUpTo(k - 1)
         + (IF analyzed_segments[k].role = "statement"
               /\ analyzed_segments[k].sentiment /= << >>
            THEN analyzed_segments[k].sentiment[1].score ELSE 0)

ScoredStatements ==
    { k \in 1..Len(analyzed_segments) :
        analyzed_segments[k].role = "statement" /\ analyzed_segments[k].sentiment /= << >> }

\* The list without its question-role segments.
WithoutQuestions == SelectSeq(analyzed_segments, LAMBDA s : s.role /= "question")

\* The part of a report that the claim is about.
Statistics(rep) ==
    << rep.sentiment_distribution, rep.emotion_distribution,
       rep.average_sentiment_score, rep.dominant_sentiment, rep.dominant_emotion >>

\* C19: the distributions, the average score and the dominant labels of a
\* report come from the statement segments that carry a sentiment (an
\* emotion): a label's count is the number of such statements with that
\* label, the average is the mean of their scores, the dominant label is one
\* of theirs, and question segments, placeholder or not, contribute to none
\* of them: the report of the list without its questions has the same
\* statistics.
C19_OnlyStatementsCount ==
    Reported =>
        /\ \A label \in SentimentLabels :
              LET n == Cardinality(StatementsWithSentiment(label))
                  entries == EntriesOf(Report.sentiment_distribution, label)
              IN /\ Cardinality(entries) = (IF n > 0 THEN 1 ELSE 0)
                 /\ \A k \in entries : Report.sentiment_distribution[k].count = n
        /\ \A label \in EmotionLabels :
              LET n == Cardinality(StatementsWithEmotion(label))
                  entries == EntriesOf(Report.emotion_distribution, label)
              IN /\ Cardinality(entries) = (IF n > 0 THEN 1 ELSE 0)
                 /\ \A k \in entries : Report.emotion_distribution[k].count = n
        /\ \A k \in 1..Len(Report.sentiment_distribution) :
              Report.sentiment_distribution[k].label \in SentimentLabels
        /\ \A k \in 1..Len(Report.emotion_distribution) :
              Report.emotion_distribution[k].label \in EmotionLabels
        /\ ScoredStatements /= {} =>
              LET n == Cardinality(ScoredStatements)
                  d == Report.average_sentiment_score * n
                         - ScoreSumUpTo(Len(analyzed_segments))
              IN 2 * d <= n /\ -2 * d <= n
        /\ Report.dominant_sentiment /= "N/A" =>
              StatementsWithSentiment(Report.dominant_sentiment) /= {}
        /\ Report.dominant_emotion /= "N/A" =>
              StatementsWithEmotion(Report.dominant_emotion) /= {}
        /\ Statistics(Report)
              = Statistics(generate_report(WithoutQuestions, 0, "en").report)

\* A question carrying the placeholder stands next to two scored statements,
\* and the label NEU is not in the distribution.
C19_Witness ==
    /\ Reported
    /\ \E k \in 1..Len(analyzed_segments) :
          /\ analyzed_segments[k].role = "question"
          /\ analyzed_segments[k].sentiment = <<[label |-> "NEU", score |-> 950]>>
          /\ analyzed_segments[k].emotion = <<[label |-> "others", score |-> 950]>>
    /\ Cardinality(ScoredStatements) = 2
    /\ EntriesOf(Report.sentiment_distribution, "NEU") = {}
    /\ EntriesOf(Report.sentiment_distribution, "POS") /= {}
    /\ Report.dominant_emotion = "joy"

RECURSIVE SumPercentages(_)
SumPercentages(dist) ==
    IF dist = << >> THEN 0 ELSE Head(dist).percentage + SumPercentages(Tail(dist))

\* The percentages (tenths of a percent) of a distribution add up to 100
\* within 0.05 for each of its labels.
SumsToHundred(dist) ==
    LET d == SumPercentages(dist) - 1000
    IN 2 * d <= Len(dist) /\ -2 * d <= Len(dist)

\* C20: when the list has a statement, the percentages of the sentiment
\* distribution add up to 100 within the one-decimal rounding error (0.05 for
\* each label), and so do those of the emotion distribution.  (An empty
\* distribution is left aside.)
C20_PercentagesSumToHundred ==
    (Reported /\ Report.total_statements > 0) =>
        /\ Report.sentiment_distribution /= << >>
              => SumsToHundred(Report.sentiment_distribution)
        /\ Report.emotion_distribution /= << >>
              => SumsToHundred(Report.emotion_distribution)

\* Statement segments that carry an emotion.
EmotionStatements ==
    { k \in 1..Len(analyzed_segments) :
        analyzed_segments[k].role = "statement" /\ analyzed_segments[k].emotion /= << >> }

\* C21: when no statement segment carries a sentiment, the empty list
\* included, the report has an empty sentiment distribution, dominant
\* sentiment N/A and average score 0.5; when none carries an emotion it has an
\* empty emotion distribution and dominant emotion N/A.
C21_NothingToAggregate ==
    Reported =>
        /\ ScoredStatements = {} =>
              /\ Report.sentiment_distribution = << >>
              /\ Report.dominant_sentiment = "N/A"
              /\ Report.average_sentiment_score = 500
        /\ EmotionStatements = {} =>
              /\ Report.emotion_distribution = << >>
              /\ Report.dominant_emotion = "N/A"

\* A statement without sentiment or emotion next to a question that carries
\* the placeholders: there is something in the list, nothing to aggregate.
C21_Witness ==
    /\ Reported
    /\ Report.total_statements > 0
    /\ Report.total_questions > 0
    /\ \E k \in 1..Len(analyzed_segments) : analyzed_segments[k].sentiment /= << >>
    /\ \E k \in 1..Len(analyzed_segments) : analyzed_segments[k].emotion /= << >>
    /\ ScoredStatements = {}
    /\ EmotionStatements = {}
    /\ Report.average_sentiment_score = 500

\* The position of the first statement that carries the sentiment (emotion)
\* label.
FirstWithSentiment(label) ==
    CHOOSE k \in StatementsWithSentiment(label) :
        \A m \in StatementsWithSentiment(label) : k <= m

FirstWithEmotion(label) ==
    CHOOSE k \in StatementsWithEmotion(label) :
        \A m \in StatementsWithEmotion(label) : k <= m

\* C22: when the distribution is not empty the dominant label has a count at
\* least that of every other label, and of the labels that tie for the highest
\* count it is the one that occurs first among the statement segments.
C22_DominantIsFirstMaximum ==
    Reported =>
        /\ ScoredStatements /= {} =>
              LET best == Report.dominant_sentiment IN
              /\ best \in SentimentLabels
              /\ StatementsWithSentiment(best) /= {}
              /\ \A other \in SentimentLabels \ {best} :
                    LET n == Cardinality(StatementsWithSentiment(other))
                        b == Cardinality(StatementsWithSentiment(best))
                    IN /\ n <= b
                       /\ (n = b) => FirstWithSentiment(best) < FirstWithSentiment(other)
        /\ EmotionStatements /= {} =>
              LET best == Report.dominant_emotion IN
              /\ best \in EmotionLabels
              /\ StatementsWithEmotion(best) /= {}
              /\ \A other \in EmotionLabels \ {best} :
                    LET n == Cardinality(StatementsWithEmotion(other))
                        b == Cardinality(StatementsWithEmotion(best))
                    IN /\ n <= b
                       /\ (n = b) => FirstWithEmotion(best) < FirstWithEmotion(other)

\* Three statements with three different sentiments, NEG first: a three-way
\* tie that NEG wins.
C22_Witness ==
    /\ Reported
    /\ Len(Report.sentiment_distribution) = 3
    /\ analyzed_segments[1].sentiment = <<[label |-> "NEG", score |-> 700]>>
    /\ Report.dominant_sentiment = "NEG"
    /\ Len(Report.emotion_distribution) = 2
    /\ Report.dominant_emotion = "others"

\* ================================== claims: counts and ids in a pipeline run

\* C23: the report's total_segments is the number of segments, total_questions
\* the number of segments of role question, total_statements the number of
\* role statement; the segments run_pipeline produces all have one of the two
\* roles, so the two counts add up to the total.
C23_ExactCounts ==
    Reported =>
        /\ Report.total_segments = Len(analyzed_segments)
        /\ Report.total_questions =
              Cardinality({k \in 1..Len(analyzed_segments) :
                             analyzed_segments[k].role = "question"})
        /\ Report.total_statements =
              Cardinality({k \in 1..Len(analyzed_segments) :
                             analyzed_segments[k].role = "statement"})
        /\ \A k \in 1..Len(analyzed_segments) :
              analyzed_segments[k].role \in {"question", "statement"}
        /\ Report.total_questions + Report.total_statements = Report.total_segments

\* A run reported on a question, a classified statement and an empty segment.
C23_Witness ==
    /\ Reported
    /\ pc = "returned"
    /\ Report.total_segments = 3
    /\ Report.total_questions = 1
    /\ Report.total_statements = 2
    /\ \E k \in 1..Len(analyzed_segments) : EmptyTrimmed(analyzed_segments[k].text)

\* The segments of the artifact: what was handed to save_analysis.
ArtifactSegments == saved[1].segments

\* C24: run_pipeline creates one AnalyzedSegment for each transcribed
\* segment, in the same order; the k-th gets the id k, so the ids are distinct
\* and increase along the list; no later phase changes an id, and every
\* paired_with of the artifact is the id of exactly one of its segments.
C24_OrdinalIds ==
    /\ Len(analyzed_segments) <= Len(transcribed)
    /\ pc \in {"Q&A Pairing", "Report Generation", "save_analysis", "returned"}
          /\ result /= <<"None">>
          => Len(analyzed_segments) = Len(transcribed)
    /\ \A k \in 1..Len(analyzed_segments) :
          /\ analyzed_segments[k].segment_id = k
          /\ analyzed_segments[k].start = transcribed[k].start
          /\ analyzed_segments[k].end = transcribed[k].end
          /\ analyzed_segments[k].speaker = transcribed[k].speaker
          /\ analyzed_segments[k].text = transcribed[k].text
    /\ \A a, b \in 1..Len(analyzed_segments) :
          a < b => analyzed_segments[a].segment_id < analyzed_segments[b].segment_id
    /\ saved /= << >> =>
          /\ ArtifactSegments = analyzed_segments
          /\ \A k \in 1..Len(ArtifactSegments) :
                ArtifactSegments[k].paired_with /= << >> =>
                    Cardinality({m \in 1..Len(ArtifactSegments) :
                        ArtifactSegments[m].segment_id
                            = ArtifactSegments[k].paired_with[1]}) = 1

\* An artifact of three segments in which the first segment, a question, and
\* its answer point to each other.
C24_Witness ==
    /\ saved /= << >>
    /\ Len(ArtifactSegments) = 3
    /\ ArtifactSegments[1].paired_with = <<2>>
    /\ ArtifactSegments[2].paired_with = <<1>>
    /\ ArtifactSegments[3].segment_id = 3

\* =========================================== claims: errors of run_pipeline

\* Some step of the pipeline has failed: a collaborator raised, the conversion
\* reported failure, or the diarizer found nothing.
StepFailed ==
    \E p \in 1..Len(trace) : trace[p][3] \in {"raise", "False", "empty"}

\* C26: run_pipeline raises no exception, and it returns None whenever a step
\* of the pipeline has failed.
C26_NeverRaises ==
    /\ result /= <<"exception">>
    /\ pc /= "raised"
    /\ (StepFailed /\ result /= << >>) => result = <<"None">>

\* =================================================== claims: errors of main

MainDone == main_result /= << >>

\* C25: main never raises: whatever raises while it runs, in its setup or in
\* the pipeline, it returns False; and it returns True exactly when
\* run_pipeline returned a result.
C25_MainNeverRaises ==
    /\ main_result /= <<"exception">>
    /\ mpc /= "raised"
    /\ MainDone => (main_result = <<"True">> <=> result = <<"analysis">>)

\* ================================================ claims: the pairer's scan

\* What one step of the pairer does to its two indices: the outer index
\* moves forward by one over a non-anchor and to the inner index after a run,
\* never back; the inner index starts right after the anchor, beyond every
\* candidate examined before, and moves forward by one per candidate.
ScanAdvances ==
    /\ i' >= i
    /\ (ppc = "outer" /\ ppc' = "outer") => i' = i + 1
    /\ (ppc = "outer" /\ ppc' = "inner") => (i' = i /\ j' = i + 1 /\ j' > j)
    /\ (ppc = "inner" /\ ppc' = "inner") => (i' = i /\ j' = j + 1)
    /\ (ppc = "inner" /\ ppc' = "outer") => (i' = j /\ i' > i /\ j' = j)
    /\ i' <= Len(pair_input) /\ j' <= Len(pair_input)

\* C27: pair_questions_answers terminates on every input: each iteration of
\* the outer loop moves the outer index strictly forward, by one over a
\* non-anchor and to where the inner run stopped for an anchor, and no segment
\* is examined as a candidate answer of more than one anchor.
C27_PairerTerminates == [][ScanAdvances]_vars /\ <>PairDone

\* The pairer has returned from a list in which a run was followed by a
\* second anchor.
C27_Witness ==
    /\ PairDone
    /\ Len(pair_input) = 3
    /\ AnchorAt(1) /\ AnchorAt(3)
    /\ NonInterviewerAt(2)
    /\ PairedAt(2) /= << >>
    /\ i = 3

\* The Interviewer segments before position k.
InterviewersBefore(k) ==
    { m \in 1..(k - 1) : pair_input[m].speaker_role = "Interviewer" }

\* The nearest of them.
NearestInterviewerBefore(k) ==
    CHOOSE m \in InterviewersBefore(k) : \A q \in InterviewersBefore(k) : q <= m

\* C28: after the pairer has run on a list with distinct ids and no pairing, a
\* segment of a speaker other than the Interviewer is paired exactly when its
\* trimmed text is non-empty and the nearest Interviewer segment before it
\* exists and is a question, and it is paired with that segment's id; after an
\* Interviewer statement, or before the first Interviewer segment, it stays
\* unpaired.
C28_AnswerPairedIffAfterQuestion ==
    (PairDone /\ DistinctIds) =>
        \A k \in Positions :
            NonInterviewerAt(k) =>
                LET answers == /\ TextAt(k)
                               /\ InterviewersBefore(k) /= {}
                               /\ pair_input[NearestInterviewerBefore(k)].role = "question"
                IN /\ PairedAt(k) /= << >> <=> answers
                   /\ answers => PairedAt(k) = <<IdAt(NearestInterviewerBefore(k))>>

\* A spoken segment before the first Interviewer segment stays unpaired, and
\* the one after the Interviewer's question carries the question's id.
C28_Witness ==
    /\ PairDone
    /\ Len(pair_input) = 3
    /\ NonInterviewerAt(1) /\ TextAt(1) /\ PairedAt(1) = << >>
    /\ AnchorAt(2)
    /\ NonInterviewerAt(3) /\ PairedAt(3) = <<IdAt(2)>>

\* ======================================== claims: map_speakers under ties

\* The speakers of segs with the fewest segments.
LeastFrequent(segs) ==
    { sp \in SpeakersIn(segs) :
        \A other \in SpeakersIn(segs) : SegmentsOf(sp, segs) <= SegmentsOf(other, segs) }

\* Where sp first speaks.
FirstOccurrence(sp, segs) ==
    CHOOSE k \in 1..Len(segs) :
        segs[k].speaker = sp /\ \A m \in 1..(k - 1) : segs[m].speaker /= sp

\* Of the least frequent speakers the one that first speaks latest.
TieWinner(segs) ==
    CHOOSE sp \in LeastFrequent(segs) :
        \A other \in LeastFrequent(segs) :
            FirstOccurrence(other, segs) <= FirstOccurrence(sp, segs)

\* C29: the mapping is a function of the segment sequence alone, so two
\* calls on the same sequence agree: of the speakers that tie for the fewest
\* segments the one whose first occurrence is latest is the Interviewer (of
\* two speakers with equal counts, the second to appear), every other speaker
\* is Interviewee.
C29_TieGoesToLatestSpeaker ==
    (Mapped /\ transcribed /= << >>) =>
        /\ speaker_map =
              [sp \in SpeakersIn(transcribed) |->
                  IF sp = TieWinner(transcribed) THEN "Interviewer" ELSE "Interviewee"]
        /\ speaker_map = map_speakers(transcribed)

\* Two speakers tie for the fewest segments and a third speaks more; the
\* Interviewer is the one that speaks first in the last segment.
C29_Witness ==
    /\ Mapped
    /\ Cardinality(SpeakersIn(transcribed)) = 3
    /\ Cardinality(LeastFrequent(transcribed)) = 2
    /\ \E sp \in LeastFrequent(transcribed) :
          /\ FirstOccurrence(sp, transcribed) = Len(transcribed)
          /\ speaker_map[sp] = "Interviewer"

\* ================================================== claims: the duration

\* The run has completed.
Completed == pc = "returned" /\ result = <<"analysis">>

\* End of the last diarized segment minus start of the first.
Span == segments[Len(segments)].end - segments[1].start

\* Every diarized segment ends no earlier than it starts.
EndsAfterStarts == \A k \in 1..Len(segments) : segments[k].start <= segments[k].end

\* C30 as stated: in a completed run on segments with non-negative bounds in
\* non-decreasing start order, the duration handed to generate_report and the
\* reported duration_seconds are non-negative.
C30_DurationNonNegative ==
    Completed => (Span >= 0 /\ saved[1].metadata.duration_seconds >= 0)

\* C30: in a completed run on segments with non-negative bounds, in
\* non-decreasing start order, each ending no earlier than it starts, the
\* duration handed to generate_report and the reported duration_seconds are
\* non-negative.
C30_DurationNonNegativeWhenOrdered ==
    (Completed /\ EndsAfterStarts) =>
        /\ Span >= 0
        /\ saved[1].metadata.duration_seconds >= 0
        /\ 10 * saved[1].metadata.duration_seconds - Span <= 5
        /\ Span - 10 * saved[1].metadata.duration_seconds <= 5

\* A completed run on three well-formed segments, the last of no length, that
\* span six thousandths of a second, reported as 0.01.
C30_Witness ==
    /\ Completed
    /\ EndsAfterStarts
    /\ Len(segments) = 3
    /\ segments[3].start = segments[3].end
    /\ Span = 6
    /\ saved[1].metadata.duration_seconds = 1


====
